---------------------------- MODULE Spec2Model ----------------------------
(***************************************************************************)
(* Citizen hazard reporting service                                        *)
(* (src/backend/api/services/citizen_reporter.py, models/schemas.py).      *)
(*                                                                         *)
(* Units.  Python floats are modelled in fixed point:                      *)
(*   - coordinates in hundredths of a degree (13.08 deg = 1308);           *)
(*   - scores and averages in hundredths (5.04 = 504), the two decimals    *)
(*     that round(x, 2) keeps;                                             *)
(*   - hazard weights in tenths (4.5 = 45);                                *)
(*   - a grid cell is named by the integer k that round() returns; the     *)
(*     code's key k * 0.1 is a one-to-one image of k;                      *)
(*   - time in hours.                                                      *)
(* Python's round() rounds an exact half to the even neighbour.  The       *)
(* coordinates used here are either no tie of coordinate / 0.1 or a        *)
(* multiple of a quarter degree, for which the IEEE quotient is exact.     *)
(***************************************************************************)
EXTENDS Integers, Sequences, FiniteSets

VARIABLES
    reports,     \* the hazard_reports table, rows in insertion order
    now,         \* datetime.now(IST), in hours
    response,    \* what the last request handler returned or raised
    media_storage, \* the files under uploads/hazard_media, in write order
    clustering,  \* the locals of the last get_hazard_hotspots run
    scoring,     \* harness of calculate_priority_score: arguments and results
    finalizing,  \* harness of the finalisation of one grid cell
    call,        \* harness of a direct call of validate_report_location or
                 \* find_nearby_reports: arguments and result; in RouteSpec
                 \* the last request and the endpoint the router gave it to
    pending      \* the submissions between their lookup and their commit

vars ==
    <<reports, now, response, media_storage, clustering, scoring, finalizing,
      call, pending>>

----------------------------------------------------------------------------
(* Arithmetic helpers.                                                     *)

Abs(x) == IF x < 0 THEN -x ELSE x

Min(a, b) == IF a <= b THEN a ELSE b

\* floor(n / d) for d > 0 and any integer n.
FloorDiv(n, d) == IF n >= 0 THEN n \div d ELSE -((-n + d - 1) \div d)

\* Python's round() of the exact rational n / d (d > 0): to the nearest
\* integer, an exact half to the even neighbour.
RoundHalfEven(n, d) ==
    LET q == FloorDiv(n, d)
        r == n - q * d
    IN  IF 2 * r < d THEN q
        ELSE IF 2 * r > d THEN q + 1
        ELSE IF q % 2 = 0 THEN q ELSE q + 1

----------------------------------------------------------------------------
(* HazardReportManager.calculate_priority_score.                           *)

HazardTypes ==
    {"tsunami", "storm_surge", "cyclone", "coastal_flooding",
     "high_waves", "rip_current", "coastal_erosion", "other"}

\* A plausible slip: two rows of the table exchanged.
hazard_weights_exchanged ==
    [t \in HazardTypes |->
        CASE t = "tsunami"          -> 50
          [] t = "storm_surge"      -> 45
          [] t = "cyclone"          -> 35
          [] t = "coastal_flooding" -> 45
          [] t = "high_waves"       -> 30
          [] t = "rip_current"      -> 30
          [] t = "coastal_erosion"  -> 20
          [] t = "other"            -> 10]

\* self.hazard_weights, in tenths.
hazard_weights ==
    [t \in HazardTypes |->
        CASE t = "tsunami"          -> 50
          [] t = "storm_surge"      -> 45
          [] t = "cyclone"          -> 45
          [] t = "coastal_flooding" -> 35
          [] t = "high_waves"       -> 30
          [] t = "rip_current"      -> 30
          [] t = "coastal_erosion"  -> 20
          [] t = "other"            -> 10]

\* A plausible slip: the default weight for every type.
base_score_default(hazard_type) == 10

\* self.hazard_weights.get(report.hazard_type, 1.0), in tenths.
base_score(hazard_type) ==
    IF hazard_type \in DOMAIN hazard_weights
        THEN hazard_weights[hazard_type] ELSE 10

\* A plausible slip: the operands of the division swapped (5.0 / severity).
severity_multiplier_swapped(severity) ==
    IF severity = 0 THEN 0 ELSE 25 \div severity

\* A plausible slip: the remainder instead of the quotient (severity % 5).
severity_multiplier_modulo(severity) == (severity % 5) * 5

\* report.severity / 5.0, in fifths.
severity_multiplier(severity) == severity

\* A plausible slip: the cap forgotten (len(nearby_reports) * 0.2).
cluster_bonus_uncapped(nearby_reports) == Len(nearby_reports)

\* A plausible slip: the cap applied to the total multiplier, not the bonus
\* (min(..., 3.0)).
cluster_bonus_cap3(nearby_reports) == Min(Len(nearby_reports), 15)

\* min(len(nearby_reports) * 0.2, 2.0), in fifths (0.2 = 1/5, 2.0 = 10/5).
cluster_bonus(nearby_reports) == Min(Len(nearby_reports), 10)

\* round(base_score * severity_multiplier * (1 + cluster_bonus) * 1.0, 2),
\* in hundredths: base/10 * severity/5 * (5 + bonus)/5 * 100
\*              = base * severity * (5 + bonus) * 2 / 5.
\* The exact product is a multiple of 1/5 of a hundredth, never a half, so
\* the float error of the product cannot move the rounding.
calculate_priority_score(hazard_type, severity, nearby_reports) ==
    RoundHalfEven(
        base_score(hazard_type) * severity_multiplier(severity)
            * (5 + cluster_bonus(nearby_reports)) * 2, 5)

----------------------------------------------------------------------------
(* models/schemas.py: the validators of ReportSubmission.                  *)

validate_latitude(v) == -9000 <= v /\ v <= 9000

validate_longitude(v) == -18000 <= v /\ v <= 18000

\* A plausible slip: the validator of hazard_type left out.
validate_hazard_type_any(v) == TRUE

validate_hazard_type(v) ==
    v \in {"tsunami", "storm_surge", "high_waves", "coastal_flooding",
           "cyclone", "rip_current", "coastal_erosion", "other"}

validate_severity(v) == 1 <= v /\ v <= 5

\* ReportSubmission(...) constructs without a validation error.
ReportSubmission(latitude, longitude, hazard_type, severity) ==
    /\ validate_latitude(latitude)
    /\ validate_longitude(longitude)
    /\ validate_hazard_type(hazard_type)
    /\ validate_severity(severity)

----------------------------------------------------------------------------
(* HazardReportManager: location gate, corroborator search, media.         *)

\* A plausible slip: the southern bound left out.
validate_report_location_no_south(lat, lon) ==
    /\ lat <= 2350
    /\ 6800 <= lon /\ lon <= 9750

\* A plausible slip: the northern and eastern bounds compared strictly.
validate_report_location_strict(lat, lon) ==
    /\ 800 <= lat /\ lat < 2350
    /\ 6800 <= lon /\ lon < 9750

\* indian_coastal_bounds, in hundredths of a degree.
validate_report_location(lat, lon) ==
    /\ 800 <= lat /\ lat <= 2350
    /\ 6800 <= lon /\ lon <= 9750

\* floor(sqrt(x)) by bisection on lo..hi.
RECURSIVE ISqrtIn(_, _, _)
ISqrtIn(x, lo, hi) ==
    IF lo >= hi THEN lo
    ELSE LET mid == (lo + hi + 1) \div 2
         IN  IF mid * mid <= x THEN ISqrtIn(x, mid, hi)
             ELSE ISqrtIn(x, lo, mid - 1)

ISqrt(x) == ISqrtIn(x, 0, 46000)

\* Metres per hundredth of a degree of latitude and of longitude on the
\* WGS-84 ellipsoid near 13 N, where the model's coordinates lie.
MetresPerLatUnit == 1106

MetresPerLonUnit == 1085

\* geodesic(a, b).kilometers, in metres.  Within 0.3 degree the geodesic is
\* the local plane distance to well under one percent; farther apart only a
\* lower bound is kept, which is far beyond any search radius.
geodesic(lat1, lon1, lat2, lon2) ==
    LET dlat == Abs(lat1 - lat2)
        dlon == Abs(lon1 - lon2)
    IN  IF dlat > 30 \/ dlon > 30
            THEN IF dlat * MetresPerLatUnit >= dlon * MetresPerLonUnit
                     THEN dlat * MetresPerLatUnit
                     ELSE dlon * MetresPerLonUnit
            ELSE ISqrt((dlat * MetresPerLatUnit) * (dlat * MetresPerLatUnit)
                     + (dlon * MetresPerLonUnit) * (dlon * MetresPerLonUnit))

\* A plausible slip: the cutoff itself excluded.
RecentReports_after(table, clock, hours) ==
    SelectSeq(table, LAMBDA r : r.timestamp > clock - hours)

\* The rows of `table` with timestamp >= clock - hours, in table order.
RecentReports(table, clock, hours) ==
    SelectSeq(table, LAMBDA r : r.timestamp >= clock - hours)

\* A plausible slip: the radius itself excluded.
within_radius_exclusive(distance, radius_m) == distance < radius_m

\* `if distance <= radius_km`.
within_radius(distance, radius_m) == distance <= radius_m

RECURSIVE NearbyOf(_, _, _, _)
NearbyOf(all_reports, lat, lon, radius_m) ==
    IF all_reports = <<>> THEN <<>>
    ELSE LET report == Head(all_reports)
             distance == geodesic(lat, lon, report.latitude, report.longitude)
             rest == NearbyOf(Tail(all_reports), lat, lon, radius_m)
         IN  IF within_radius(distance, radius_m)
                 THEN <<[id |-> report.id,
                         distance_km |-> RoundHalfEven(distance, 10),
                         hazard_type |-> report.hazard_type,
                         severity |-> report.severity]>> \o rest
                 ELSE rest

\* A plausible slip: one report for each user, the first in table order.
find_nearby_reports_one_per_user(table, clock, lat, lon, radius_m) ==
    LET recent == RecentReports(table, clock, 24)
        first_of_user ==
            {i \in DOMAIN recent :
                \A k \in 1 .. i - 1 : recent[k].user_id # recent[i].user_id}
    IN  NearbyOf(SelectSeq(recent,
                     LAMBDA r : \E i \in first_of_user : recent[i] = r),
                 lat, lon, radius_m)

\* A plausible slip: the time filter of the query left out.
find_nearby_reports_unwindowed(table, clock, lat, lon, radius_m) ==
    NearbyOf(table, lat, lon, radius_m)

\* find_nearby_reports(db, lat, lon, radius_km) at time `clock`; the radius
\* in metres.
find_nearby_reports(table, clock, lat, lon, radius_m) ==
    NearbyOf(RecentReports(table, clock, 24), lat, lon, radius_m)

\* 10 * 1024 * 1024 bytes.
MediaLimit == 10485760

\* The loop over media_files: each file is read, checked against the limit
\* and written.  A file over the limit raises; the files written before it
\* stay.  `storage` holds one entry per written file.
RECURSIVE SaveMedia(_, _, _)
SaveMedia(media_files, storage, media_urls) ==
    IF media_files = <<>>
        THEN [raised |-> FALSE, storage |-> storage, media_urls |-> media_urls]
    ELSE IF Head(media_files) > MediaLimit
        THEN [raised |-> TRUE, storage |-> storage, media_urls |-> media_urls]
    ELSE LET url == Len(storage) + 1
         IN  SaveMedia(Tail(media_files),
                       Append(storage, [url |-> url, size |-> Head(media_files)]),
                       Append(media_urls, url))

----------------------------------------------------------------------------
(* POST /api/report/submit.                                                *)

\* The form fields of a submission, kept with its outcome.
Form(user_id, latitude, longitude, hazard_type, severity, media_files) ==
    [user_id |-> user_id, latitude |-> latitude, longitude |-> longitude,
     hazard_type |-> hazard_type, severity |-> severity,
     media_files |-> media_files]

\* A plausible slip: the new row is also entered in the nearby_reports of
\* the rows it lists (a live relation instead of a snapshot).
db_add_live(table, db_report) ==
    LET listed == {db_report.nearby_reports[j].id :
                       j \in DOMAIN db_report.nearby_reports}
        entry(r) == [id |-> db_report.id,
                     distance_km |-> 0,
                     hazard_type |-> db_report.hazard_type,
                     severity |-> db_report.severity]
    IN  Append([i \in DOMAIN table |->
                   IF table[i].id \in listed
                       THEN [table[i] EXCEPT
                                !.nearby_reports = Append(@, entry(table[i]))]
                       ELSE table[i]],
               db_report)

\* db.add(db_report); db.commit().
db_add(table, db_report) == Append(table, db_report)

submit_hazard_report(user_id, latitude, longitude, hazard_type, severity, media_files) ==
    LET request == Form(user_id, latitude, longitude, hazard_type, severity,
                        media_files)
    IN
    IF ~validate_report_location(latitude, longitude) THEN
        /\ response' = [op |-> "submit_hazard_report", status |-> 400,
                        detail |-> "Location must be near Indian coastline",
                        request |-> request]
        /\ UNCHANGED <<reports, media_storage>>
    ELSE IF ~ReportSubmission(latitude, longitude, hazard_type, severity) THEN
        /\ response' = [op |-> "submit_hazard_report", status |-> 500,
                        detail |-> "ValidationError",
                        request |-> request]
        /\ UNCHANGED <<reports, media_storage>>
    ELSE
        LET nearby_reports ==
                find_nearby_reports(reports, now, latitude, longitude, 5000)
            priority_score ==
                calculate_priority_score(hazard_type, severity, nearby_reports)
            saved == SaveMedia(media_files, media_storage, <<>>)
            db_report ==
                [id |-> Len(reports) + 1,
                 user_id |-> user_id,
                 timestamp |-> now,
                 latitude |-> latitude,
                 longitude |-> longitude,
                 hazard_type |-> hazard_type,
                 severity |-> severity,
                 media_urls |-> saved.media_urls,
                 verification_status |-> "pending",
                 priority_score |-> priority_score,
                 nearby_reports |-> nearby_reports]
        IN  /\ media_storage' = saved.storage
            /\ IF saved.raised THEN
                   /\ response' = [op |-> "submit_hazard_report",
                                   status |-> 400,
                                   detail |-> "File size exceeds 10MB limit",
                                   request |-> request]
                   /\ UNCHANGED reports
               ELSE
                   /\ reports' = db_add(reports, db_report)
                   /\ response' = [op |-> "submit_hazard_report",
                                   status |-> 200,
                                   report_id |-> db_report.id,
                                   priority_score |-> priority_score,
                                   nearby_reports_count |-> Len(nearby_reports),
                                   request |-> request]

\* The handler in two steps, for submissions that overlap: between the
\* lookup and the commit the handler awaits the media files, and other
\* requests are served.  begin_submission is the handler up to the score:
\* a refused submission is answered at once, an accepted one is kept with
\* the list and the score it was given.
begin_submission(user_id, latitude, longitude, hazard_type, severity, media_files) ==
    LET request == Form(user_id, latitude, longitude, hazard_type, severity,
                        media_files)
    IN
    IF ~validate_report_location(latitude, longitude) THEN
        /\ response' = [op |-> "submit_hazard_report", status |-> 400,
                        detail |-> "Location must be near Indian coastline",
                        request |-> request]
        /\ UNCHANGED <<reports, media_storage, pending>>
    ELSE IF ~ReportSubmission(latitude, longitude, hazard_type, severity) THEN
        /\ response' = [op |-> "submit_hazard_report", status |-> 500,
                        detail |-> "ValidationError",
                        request |-> request]
        /\ UNCHANGED <<reports, media_storage, pending>>
    ELSE
        LET nearby_reports ==
                find_nearby_reports(reports, now, latitude, longitude, 5000)
            priority_score ==
                calculate_priority_score(hazard_type, severity, nearby_reports)
        IN  /\ pending' = Append(pending,
                               [request |-> request,
                                nearby_reports |-> nearby_reports,
                                priority_score |-> priority_score])
            /\ UNCHANGED <<reports, media_storage, response>>

\* A plausible slip: the corroborators looked up again at the commit.
corroborators_relooked(entry, table, clock) ==
    find_nearby_reports(table, clock, entry.request.latitude,
                        entry.request.longitude, 5000)

\* nearby_reports=nearby_reports: the row gets the list of the lookup,
\* whatever the table holds at the commit.
corroborators_at_commit(entry, table, clock) == entry.nearby_reports

\* The sequence without its k-th element.
RemoveAt(s, k) == SubSeq(s, 1, k - 1) \o SubSeq(s, k + 1, Len(s))

\* The rest of the handler for the k-th submission in flight: the media
\* loop, then the row, stamped with the time of its insertion, and the
\* commit.
finish_submission(k) ==
    LET request == pending[k].request
        nearby_reports == corroborators_at_commit(pending[k], reports, now)
        priority_score == pending[k].priority_score
        saved == SaveMedia(request.media_files, media_storage, <<>>)
        db_report ==
            [id |-> Len(reports) + 1,
             user_id |-> request.user_id,
             timestamp |-> now,
             latitude |-> request.latitude,
             longitude |-> request.longitude,
             hazard_type |-> request.hazard_type,
             severity |-> request.severity,
             media_urls |-> saved.media_urls,
             verification_status |-> "pending",
             priority_score |-> priority_score,
             nearby_reports |-> nearby_reports]
    IN  /\ pending' = RemoveAt(pending, k)
        /\ media_storage' = saved.storage
        /\ IF saved.raised THEN
               /\ response' = [op |-> "submit_hazard_report",
                               status |-> 400,
                               detail |-> "File size exceeds 10MB limit",
                               request |-> request]
               /\ UNCHANGED reports
           ELSE
               /\ reports' = db_add(reports, db_report)
               /\ response' = [op |-> "submit_hazard_report",
                               status |-> 200,
                               report_id |-> db_report.id,
                               priority_score |-> priority_score,
                               nearby_reports_count |-> Len(nearby_reports),
                               request |-> request]

----------------------------------------------------------------------------
(* verify_report.                                                          *)

\* A plausible slip: the filter on the id left out, first() yields the
\* first row of the table.
RowOf_unfiltered(table, report_id) == IF table = <<>> THEN 0 ELSE 1

\* The position of the first row with this id, 0 when there is none.
RowOf(table, report_id) ==
    IF \E i \in DOMAIN table : table[i].id = report_id
        THEN CHOOSE i \in DOMAIN table :
                 /\ table[i].id = report_id
                 /\ \A k \in 1 .. i - 1 : table[k].id # report_id
        ELSE 0

\* A plausible slip: the check of the status left out.
verify_report_unchecked(report_id, status, verifier_id) ==
    LET request == [report_id |-> report_id, status |-> status]
    IN
    IF RowOf(reports, report_id) = 0 THEN
        /\ response' = [op |-> "verify_report", status |-> 404,
                        detail |-> "Report not found",
                        request |-> request]
        /\ UNCHANGED reports
    ELSE
        /\ reports' = [reports EXCEPT
               ![RowOf(reports, report_id)].verification_status = status]
        /\ response' = [op |-> "verify_report", status |-> 200,
                        report_id |-> report_id,
                        new_status |-> status,
                        verified_by |-> verifier_id,
                        verification_timestamp |-> now,
                        request |-> request]

\* verifier_id and verification_timestamp are set on the object only:
\* HazardReport has no such columns, so the commit stores the status alone.
verify_report(report_id, status, verifier_id) ==
    LET request == [report_id |-> report_id, status |-> status]
    IN
    IF status \notin {"verified", "rejected"} THEN
        /\ response' = [op |-> "verify_report", status |-> 400,
                        detail |-> "Status must be 'verified' or 'rejected'",
                        request |-> request]
        /\ UNCHANGED reports
    ELSE IF RowOf(reports, report_id) = 0 THEN
        /\ response' = [op |-> "verify_report", status |-> 404,
                        detail |-> "Report not found",
                        request |-> request]
        /\ UNCHANGED reports
    ELSE
        /\ reports' = [reports EXCEPT
               ![RowOf(reports, report_id)].verification_status = status]
        /\ response' = [op |-> "verify_report", status |-> 200,
                        report_id |-> report_id,
                        new_status |-> status,
                        verified_by |-> verifier_id,
                        verification_timestamp |-> now,
                        request |-> request]

\* GET /api/reports/{report_id}: the row as it is stored.
get_report_details(report_id) ==
    /\ response' =
           IF RowOf(reports, report_id) = 0
               THEN [op |-> "get_report_details", status |-> 404,
                     detail |-> "Report not found"]
               ELSE [op |-> "get_report_details", status |-> 200,
                     report |-> reports[RowOf(reports, report_id)]]
    /\ UNCHANGED reports

----------------------------------------------------------------------------
(* get_hazard_hotspots.                                                    *)

\* 2^s mod q, by s doublings.
RECURSIVE PowMod2(_, _)
PowMod2(s, q) == IF s = 0 THEN 1 % q ELSE (2 * PowMod2(s - 1, q)) % q

\* round(p / q, 2) in hundredths, for 1 <= p / q < 8.  Off a tie the nearest
\* hundredth of the exact quotient; on a tie (100 p / q = k + 1/2) the
\* double nearest to p / q decides: it lies below the tie, above it, or on
\* it (then the even neighbour).  R is the remainder the division leaves
\* behind the 53rd bit.
Round2(p, q) ==
    IF (200 * p) % q = 0 /\ ((200 * p) \div q) % 2 = 1
        THEN LET k == (100 * p) \div q
                 e == IF p < 2 * q THEN 0 ELSE IF p < 4 * q THEN 1 ELSE 2
                 R == ((p % q) * PowMod2(52 - e, q)) % q
             IN  IF R = 0 THEN (IF k % 2 = 0 THEN k ELSE k + 1)
                 ELSE IF 2 * R < q THEN k
                 ELSE k + 1
        ELSE RoundHalfEven(100 * p, q)

\* n / d (d > 0) rounded to the nearest integer, an exact half away from
\* zero.
round_half_away(n, d) ==
    IF n >= 0 THEN (2 * n + d) \div (2 * d)
    ELSE -((2 * (-n) + d) \div (2 * d))

\* A plausible slip: the quotient truncated instead of rounded.
grid_round_truncated(coordinate) == coordinate \div 10

\* round(coordinate / grid_size), grid_size = 0.1: the coordinate in
\* hundredths over 10.
grid_round(coordinate) == RoundHalfEven(coordinate, 10)

\* grid_key of a report, held as the two multipliers of grid_size: distinct
\* multipliers have distinct products, so the keys compare as the floats do.
grid_key(report) ==
    <<grid_round(report.latitude), grid_round(report.longitude)>>

\* e with 2^e <= k / 10 < 2^(e + 1), for k >= 10.
RECURSIVE ExponentOf(_)
ExponentOf(k) == IF k < 20 THEN 0 ELSE 1 + ExponentOf(k \div 2)

RECURSIVE Pow2(_)
Pow2(e) == IF e = 0 THEN 1 ELSE 2 * Pow2(e - 1)

\* By how many units in the last place the float product k * grid_size
\* exceeds the double nearest to k / 10, for k >= 10 (the location gate
\* keeps every multiplier at 80 or more).  The double 0.1 is (1 + 2^-54)/10,
\* so the exact product is k/10 * (1 + 2^-54): with r10 the tenths of a
\* unit by which k/10 exceeds the double below it (always even), the
\* product lies r10 + k / 2^(e+2) tenths above that double, the added part
\* in [2.5, 5).  It rounds one unit higher than k/10 does when r10 = 4, and
\* when r10 = 2 and k / 2^(e+2) >= 3 (at equality the tie goes up, the
\* double below being odd); for r10 in {0, 6, 8} both round alike.
ProductExcess(k) ==
    LET e == ExponentOf(k)
        r10 == ((k % 10) * PowMod2(52 - e, 10)) % 10
    IN  IF r10 = 4 \/ (r10 = 2 /\ k >= 12 * Pow2(e)) THEN 1 ELSE 0

\* round(...) * grid_size: the float product of the multiplier k and 0.1,
\* as the double nearest to tenths / 10 plus `ulps` units in the last place.
grid_product(k) == [tenths |-> k, ulps |-> ProductExcess(k)]

\* A plausible slip: the membership test always fails, every report opens
\* a cell.
CellIndex_absent(clusters, key) == 0

\* The position of the cell `key` in the mapping, 0 when it is absent.
CellIndex(clusters, key) ==
    IF \E j \in DOMAIN clusters : clusters[j].key = key
        THEN CHOOSE j \in DOMAIN clusters : clusters[j].key = key
        ELSE 0

\* The accumulation loop over recent_reports; `clusters` is the dict in
\* insertion order.
RECURSIVE Accumulate(_, _)
Accumulate(recent_reports, clusters) ==
    IF recent_reports = <<>> THEN clusters
    ELSE LET report == Head(recent_reports)
             key == grid_key(report)
             found == CellIndex(clusters, key)
             opened ==
                 IF found = 0
                     THEN Append(clusters,
                              [key |-> key,
                               center_lat |-> grid_product(key[1]),
                               center_lon |-> grid_product(key[2]),
                               reports |-> <<>>,
                               total_severity |-> 0,
                               hazard_types |-> {}])
                     ELSE clusters
             j == IF found = 0 THEN Len(opened) ELSE found
         IN  Accumulate(Tail(recent_reports),
                 [opened EXCEPT
                     ![j].reports = Append(@, report.id),
                     ![j].total_severity = @ + report.severity,
                     ![j].hazard_types = @ \cup {report.hazard_type}])

\* A plausible slip: the mapping of the previous run reused.
new_clusters_reused(leftover) == leftover

\* clusters = {}: whatever an earlier run left, a run starts empty.
new_clusters(leftover) == <<>>

\* A plausible slip: the comparison with the rounded average.
threat_level_rounded(total_severity, report_count) ==
    IF Round2(total_severity, report_count) >= 350 THEN "high" ELSE "medium"

\* 'high' if avg_severity >= 3.5 else 'medium', avg_severity the unrounded
\* quotient: total / count >= 7/2.
threat_level(total_severity, report_count) ==
    IF 2 * total_severity >= 7 * report_count THEN "high" ELSE "medium"

\* The hotspot record of one cell.
Hotspot(cluster) ==
    [latitude |-> cluster.center_lat,
     longitude |-> cluster.center_lon,
     report_count |-> Len(cluster.reports),
     average_severity |->
         Round2(cluster.total_severity, Len(cluster.reports)),
     hazard_types |-> cluster.hazard_types,
     threat_level |->
         threat_level(cluster.total_severity, Len(cluster.reports))]

\* A plausible slip: a strict comparison with min_reports.
passes_threshold_strict(cluster, min_reports) ==
    Len(cluster.reports) > min_reports

\* len(cluster['reports']) >= min_reports.
passes_threshold(cluster, min_reports) ==
    Len(cluster.reports) >= min_reports

\* The loop over clusters.items(): one hotspot per cell that passes.
RECURSIVE Emit(_, _)
Emit(clusters, min_reports) ==
    IF clusters = <<>> THEN <<>>
    ELSE IF passes_threshold(Head(clusters), min_reports)
        THEN <<Hotspot(Head(clusters))>> \o Emit(Tail(clusters), min_reports)
        ELSE Emit(Tail(clusters), min_reports)

\* key=lambda x: x['report_count'] * x['average_severity'], in hundredths.
sort_key(x) == x.report_count * x.average_severity

\* A plausible slip: reverse=True left out.
goes_before_ascending(x, y) == sort_key(x) < sort_key(y)

\* Whether an element x that comes later in the list is moved in front of
\* y by sort(reverse=True): only when its key is strictly larger (the sort
\* is stable, also in reverse).
goes_before(x, y) == sort_key(x) > sort_key(y)

\* x put into the sorted list s, behind every element it does not pass.
RECURSIVE InsertSorted(_, _)
InsertSorted(s, x) ==
    IF s = <<>> THEN <<x>>
    ELSE IF goes_before(x, s[Len(s)])
        THEN Append(InsertSorted(SubSeq(s, 1, Len(s) - 1), x), s[Len(s)])
        ELSE Append(s, x)

\* hotspots.sort(key=..., reverse=True).
RECURSIVE SortHotspots(_)
SortHotspots(hotspots) ==
    IF hotspots = <<>> THEN <<>>
    ELSE InsertSorted(
             SortHotspots(SubSeq(hotspots, 1, Len(hotspots) - 1)),
             hotspots[Len(hotspots)])

\* A plausible slip: the run writes back only the rows it read.
store_after_run_pruned(table, recent_reports) == recent_reports

\* The table after a run: the run only queries, it adds, changes and commits
\* nothing.
store_after_run(table, recent_reports) == table

\* get_hazard_hotspots(time_range, min_reports): the whole run.  The record
\* of the run keeps recent_reports by id, and notes whether the run repeats
\* the run before it: the same arguments over the same recent reports, with
\* no other handler between.
get_hazard_hotspots(time_range, min_reports) ==
    LET cutoff_time == now - time_range
        recent_reports == RecentReports(reports, now, time_range)
        leftover == IF clustering.pc = "done"
                        THEN clustering.clusters ELSE <<>>
        clusters == Accumulate(recent_reports, new_clusters(leftover))
        hotspots == SortHotspots(Emit(clusters, min_reports))
        recent_ids == [i \in DOMAIN recent_reports |-> recent_reports[i].id]
        repeats ==
            /\ clustering.pc = "done"
            /\ clustering.time_range = time_range
            /\ clustering.min_reports = min_reports
            /\ clustering.recent_reports = recent_ids
    IN  /\ clustering' = [pc |-> "done",
                          repeats_previous |-> repeats,
                          time_range |-> time_range,
                          min_reports |-> min_reports,
                          cutoff_time |-> cutoff_time,
                          recent_reports |-> recent_ids,
                          clusters |-> clusters]
        /\ response' = [op |-> "get_hazard_hotspots", status |-> 200,
                        hotspots |-> hotspots,
                        total_reports |-> Len(recent_reports),
                        time_range_hours |-> time_range]
        /\ reports' = store_after_run(reports, recent_reports)
        /\ UNCHANGED media_storage

\* The sum of the severities of the rows.
RECURSIVE SeveritySum(_)
SeveritySum(rows) ==
    IF rows = <<>> THEN 0 ELSE Head(rows).severity + SeveritySum(Tail(rows))

\* GET /api/dashboard/stats: the counts over the last 24 hours and a run of
\* get_hazard_hotspots with its defaults (24 hours, min_reports 3).
get_dashboard_stats ==
    LET active_reports == RecentReports(reports, now, 24)
        hazard_counts ==
            [t \in {active_reports[i].hazard_type :
                        i \in DOMAIN active_reports} |->
                Cardinality({i \in DOMAIN active_reports :
                                active_reports[i].hazard_type = t})]
        severity_sum == SeveritySum(active_reports)
        verified_count ==
            Cardinality({i \in DOMAIN active_reports :
                active_reports[i].verification_status = "verified"})
        high_priority_count ==
            Cardinality({i \in DOMAIN active_reports :
                active_reports[i].priority_score >= 400})
        recent_reports == RecentReports(reports, now, 24)
        hotspots ==
            SortHotspots(Emit(Accumulate(recent_reports, new_clusters(<<>>)),
                              3))
    IN  /\ response' = [op |-> "get_dashboard_stats", status |-> 200,
                        total_reports |-> Len(active_reports),
                        verified_reports |-> verified_count,
                        active_hazards |-> Cardinality(DOMAIN hazard_counts),
                        high_priority_alerts |-> high_priority_count,
                        hotspot_count |-> Len(hotspots),
                        average_severity |->
                            IF active_reports # <<>>
                                THEN Round2(severity_sum, Len(active_reports))
                                ELSE 0,
                        hazard_distribution |-> hazard_counts,
                        last_updated |-> now]
        /\ reports' = store_after_run(reports, recent_reports)
        /\ UNCHANGED media_storage

----------------------------------------------------------------------------
(* Idle values of the parts of the state a specification does not use.     *)

IdleResponse == [op |-> "none", status |-> 0]

IdleClustering == [pc |-> "idle", clusters |-> <<>>]

IdleScoring ==
    [pc |-> "idle", hazard_type |-> "other",
     severity_a |-> 1, n_a |-> 0, score_a |-> 0, outcome_a |-> "none",
     severity_b |-> 1, n_b |-> 0, score_b |-> 0, outcome_b |-> "none"]

IdleFinalizing ==
    [pc |-> "idle", report_count |-> 0, total_severity |-> 0,
     hotspots |-> <<>>]

IdleCall == [fn |-> "none", pc |-> "idle"]

----------------------------------------------------------------------------
(* ScoreSpec: calculate_priority_score applied to two reports of one       *)
(* hazard type.  The arguments are drawn in the initial state.             *)

MaxCorroborators == 12

\* The eight table entries and one type the table does not hold.
ScoreHazardTypes == HazardTypes \cup {"landslide"}

\* The validated range 1..5 and its two neighbours.
ScoreSeverities == 0 .. 6

\* A nearby_reports list of length n, as find_nearby_reports builds it.
Corroborators(n) ==
    [i \in 1 .. n |->
        [id |-> i, distance_km |-> 0, hazard_type |-> "other", severity |-> 1]]

ScoreInit ==
    /\ reports = <<>>
    /\ now = 0
    /\ response = IdleResponse
    /\ media_storage = <<>>
    /\ pending = <<>>
    /\ clustering = IdleClustering
    /\ finalizing = IdleFinalizing
    /\ call = IdleCall
    /\ \E t \in ScoreHazardTypes :
       \E sa \in ScoreSeverities, sb \in ScoreSeverities :
       \E na \in 0 .. MaxCorroborators, nb \in 0 .. MaxCorroborators :
          scoring = [pc |-> "args", hazard_type |-> t,
                     severity_a |-> sa, n_a |-> na, score_a |-> 0,
                     outcome_a |-> "none",
                     severity_b |-> sb, n_b |-> nb, score_b |-> 0,
                     outcome_b |-> "none"]

ScoreFirst ==
    /\ scoring.pc = "args"
    /\ scoring' = [scoring EXCEPT
           !.pc = "first",
           !.outcome_a = "returned",
           !.score_a = calculate_priority_score(
               scoring.hazard_type, scoring.severity_a,
               Corroborators(scoring.n_a))]
    /\ UNCHANGED pending
    /\ UNCHANGED <<reports, now, response, media_storage, clustering, finalizing, call>>

ScoreSecond ==
    /\ scoring.pc = "first"
    /\ scoring' = [scoring EXCEPT
           !.pc = "done",
           !.outcome_b = "returned",
           !.score_b = calculate_priority_score(
               scoring.hazard_type, scoring.severity_b,
               Corroborators(scoring.n_b))]
    /\ UNCHANGED pending
    /\ UNCHANGED <<reports, now, response, media_storage, clustering, finalizing, call>>

ScoreNext == ScoreFirst \/ ScoreSecond

ScoreSpec == ScoreInit /\ [][ScoreNext]_vars

\* Both reports scored, with arguments the submission boundary lets through.
ScoredValid ==
    /\ scoring.pc = "done"
    /\ scoring.hazard_type \in HazardTypes
    /\ scoring.severity_a \in 1 .. 5
    /\ scoring.severity_b \in 1 .. 5

\* The first call has ended, by a return or by an exception.
FirstScored == scoring.pc \in {"first", "done"}

----------------------------------------------------------------------------
(* Claims about calculate_priority_score, checked under ScoreSpec.         *)

\* C1 (as stated): of two reports of the same hazard type, the one with the
\* lower severity never gets a strictly higher priority score than the one
\* with the higher severity, whatever the two corroborator counts are.
C1_LowerSeverityNeverOutranks ==
    (ScoredValid /\ scoring.severity_a < scoring.severity_b)
        => scoring.score_a <= scoring.score_b

\* C1 (amended): of two reports of the same hazard type, the one with the
\* lower severity never gets a strictly higher priority score than the one
\* with the higher severity, provided the higher-severity report has at
\* least as many corroborators.
C1_LowerSeverityNeverOutranksGivenCorroboration ==
    (/\ ScoredValid
     /\ scoring.severity_a < scoring.severity_b
     /\ scoring.n_a <= scoring.n_b)
        => scoring.score_a <= scoring.score_b

C1_Witness ==
    /\ ScoredValid
    /\ scoring.severity_a = 4
    /\ scoring.severity_b = 5
    /\ scoring.n_a = 2
    /\ scoring.n_b = 11
    /\ scoring.score_a < scoring.score_b

\* C2: for a fixed hazard type and a fixed corroborator count the score is
\* non-decreasing in severity: one more severity level never lowers it.
C2_MonotoneInSeverity ==
    (/\ ScoredValid
     /\ scoring.n_a = scoring.n_b
     /\ scoring.severity_b = scoring.severity_a + 1)
        => scoring.score_a <= scoring.score_b

C2_Witness ==
    /\ ScoredValid
    /\ scoring.n_a = scoring.n_b
    /\ scoring.n_a = 3
    /\ scoring.severity_a = 4
    /\ scoring.severity_b = 5
    /\ scoring.score_a < scoring.score_b

\* C3: for every hazard type of the table, every severity in 1..5 and every
\* corroborator count the score is strictly above 0 and at most 15.00, and
\* so is the priority_score of every persisted report.
C3_ScoreBounded ==
    /\ ScoredValid =>
          /\ 0 < scoring.score_a /\ scoring.score_a <= 1500
          /\ 0 < scoring.score_b /\ scoring.score_b <= 1500
    /\ \A i \in DOMAIN reports :
          0 < reports[i].priority_score /\ reports[i].priority_score <= 1500

\* The upper bound is met: a tsunami of severity 5 with a saturated bonus.
C3_Witness ==
    /\ ScoredValid
    /\ scoring.n_a > 10
    /\ scoring.score_a = 1500
    /\ scoring.score_b = 100

\* C4: for a fixed hazard type and severity one more corroborator never
\* lowers the score, and from 10 corroborators on the score no longer
\* changes.
C4_MonotoneAndSaturating ==
    (ScoredValid /\ scoring.severity_a = scoring.severity_b) =>
        /\ scoring.n_b = scoring.n_a + 1 => scoring.score_a <= scoring.score_b
        /\ (scoring.n_a = 10 /\ scoring.n_b >= 10)
               => scoring.score_b = scoring.score_a

C4_Witness ==
    /\ ScoredValid
    /\ scoring.severity_a = scoring.severity_b
    /\ scoring.n_a = 10
    /\ scoring.n_b = 12
    /\ scoring.score_a = scoring.score_b
    /\ scoring.score_a > 0

\* The weight table as the specification lists it, in tenths.
C5_Weight(t) ==
    CASE t = "tsunami" -> 50
      [] t \in {"storm_surge", "cyclone"} -> 45
      [] t = "coastal_flooding" -> 35
      [] t \in {"high_waves", "rip_current"} -> 30
      [] t = "coastal_erosion" -> 20
      [] t = "other" -> 10

\* The score is the hundredth nearest to weight * (severity/5) * (1 + bonus),
\* bonus = min(0.2 * n, 2.0):  |score/100 - exact| <= 1/200, multiplied out.
C5_IsFormula(t, severity, n, score) ==
    LET bonus_fifths == IF n <= 10 THEN n ELSE 10
        exact_x250 == C5_Weight(t) * severity * (5 + bonus_fifths)
    IN  2 * Abs(5 * score - 2 * exact_x250) <= 5

\* C5: the score is weight * (severity/5) * (1 + min(0.2*n, 2.0)) rounded to
\* two decimals, with the weights of the table, and depends on nothing but
\* the hazard type, the severity and the number of corroborators.
C5_ScoreFormula ==
    ScoredValid =>
        /\ C5_IsFormula(scoring.hazard_type, scoring.severity_a,
                        scoring.n_a, scoring.score_a)
        /\ C5_IsFormula(scoring.hazard_type, scoring.severity_b,
                        scoring.n_b, scoring.score_b)

\* The worked example: cyclone, severity 4, two corroborators, 5.04.
C5_Witness ==
    /\ ScoredValid
    /\ scoring.hazard_type = "cyclone"
    /\ scoring.severity_a = 4
    /\ scoring.n_a = 2
    /\ scoring.score_a = 504

----------------------------------------------------------------------------
(* Spec: the service.  Submissions, clustering runs and the clock.         *)

MaxReports == 3

TickHours == 24

MaxNow == 48

\* The submissions the service is driven with: (user_id, latitude,
\* longitude, hazard_type, severity, media_files).  Two points 1.1 km apart
\* in one grid cell off Chennai; two points a quarter degree off the grid
\* lines (ties of coordinate / 0.1 in both axes, one below an even and one
\* below an odd multiple); and three submissions the
\* handler refuses: south of the service area, a hazard type the validator
\* does not know, and a file over the limit.
Submissions ==
    {<<"u1", 1308, 8027, "cyclone", 4, <<>> >>,
     <<"u1", 1309, 8027, "other", 3, <<>> >>,
     <<"u1", 1325, 8025, "cyclone", 3, <<>> >>,
     <<"u1", 1325, 8025, "other", 4, <<>> >>,
     <<"u1", 1375, 8075, "cyclone", 3, <<>> >>,
     <<"u1", 700, 8027, "cyclone", 4, <<1024>> >>,
     <<"u1", 1308, 8027, "landslide", 4, <<>> >>,
     <<"u1", 1308, 8027, "cyclone", 4, <<MediaLimit + 1>> >>}

TimeRanges == {24}

MinReports == {1, 2, 3}

SubmitReport ==
    /\ Len(reports) < MaxReports
    /\ \E form \in Submissions :
          submit_hazard_report(form[1], form[2], form[3], form[4], form[5],
                               form[6])
    /\ clustering' = IdleClustering
    /\ call' = IdleCall
    /\ UNCHANGED pending
    /\ UNCHANGED <<now, scoring, finalizing>>

HotspotRun ==
    /\ \E time_range \in TimeRanges, min_reports \in MinReports :
          get_hazard_hotspots(time_range, min_reports)
    /\ UNCHANGED pending
    /\ UNCHANGED <<now, scoring, finalizing, call>>

Tick ==
    /\ now + TickHours <= MaxNow
    /\ now' = now + TickHours
    /\ UNCHANGED pending
    /\ UNCHANGED <<reports, response, media_storage, clustering, scoring,
                   finalizing, call>>

Init ==
    /\ reports = <<>>
    /\ now = 0
    /\ response = IdleResponse
    /\ media_storage = <<>>
    /\ pending = <<>>
    /\ clustering = IdleClustering
    /\ scoring = IdleScoring
    /\ finalizing = IdleFinalizing
    /\ call = IdleCall

Next == SubmitReport \/ HotspotRun \/ Tick

Spec == Init /\ [][Next]_vars

----------------------------------------------------------------------------
(* FinalizeSpec: the finalisation of one grid cell, applied to a cell of    *)
(* report_count reports whose severities (each 1..5) sum to total_severity. *)

MaxCellReports == 101

\* The cell as the accumulation loop leaves it.
CellOf(report_count, total_severity) ==
    [key |-> <<131, 803>>,
     center_lat |-> grid_product(131),
     center_lon |-> grid_product(803),
     reports |-> [i \in 1 .. report_count |-> i],
     total_severity |-> total_severity,
     hazard_types |-> {"cyclone"}]

FinalizeInit ==
    /\ reports = <<>>
    /\ now = 0
    /\ response = IdleResponse
    /\ media_storage = <<>>
    /\ pending = <<>>
    /\ clustering = IdleClustering
    /\ scoring = IdleScoring
    /\ call = IdleCall
    /\ \E n \in 1 .. MaxCellReports :
       \E total \in n .. 5 * n :
          finalizing = [pc |-> "cell", report_count |-> n,
                        total_severity |-> total, hotspots |-> <<>>]

\* The second loop of get_hazard_hotspots over this one cell, min_reports
\* at its default.
FinalizeCell ==
    /\ finalizing.pc = "cell"
    /\ finalizing' = [finalizing EXCEPT
           !.pc = "done",
           !.hotspots = Emit(<<CellOf(finalizing.report_count,
                                      finalizing.total_severity)>>, 3)]
    /\ UNCHANGED pending
    /\ UNCHANGED <<reports, now, response, media_storage, clustering,
                   scoring, call>>

FinalizeNext == FinalizeCell

FinalizeSpec == FinalizeInit /\ [][FinalizeNext]_vars

----------------------------------------------------------------------------
(* Claims about get_hazard_hotspots.                                       *)

\* The last handler to finish was a clustering run.
ClusteringDone == clustering.pc = "done"

\* The reports of the store that were inside the window of the last run.
InWindow ==
    {i \in DOMAIN reports : reports[i].timestamp >= clustering.cutoff_time}

\* The in-window reports that the grid maps to cell `key`.
CellMembers(key) == {i \in InWindow : grid_key(reports[i]) = key}

\* The positions in the returned list of the hotspots centred on `key`.
HotspotsAt(key) ==
    {j \in DOMAIN response.hotspots :
        <<response.hotspots[j].latitude.tenths,
          response.hotspots[j].longitude.tenths>> = key}

AllCells == {grid_key(reports[i]) : i \in DOMAIN reports}

\* C6: a cell holding exactly min_reports - 1 in-window reports produces no
\* hotspot, a cell holding exactly min_reports produces exactly one, and no
\* emitted hotspot has report_count < min_reports.
C6_Threshold ==
    ClusteringDone =>
        /\ \A key \in AllCells :
              LET n == Cardinality(CellMembers(key))
              IN  /\ n = clustering.min_reports - 1 => HotspotsAt(key) = {}
                  /\ n = clustering.min_reports
                         => Cardinality(HotspotsAt(key)) = 1
        /\ \A j \in DOMAIN response.hotspots :
              response.hotspots[j].report_count >= clustering.min_reports

\* A run with min_reports = 2 over a cell of two reports and a cell of one.
C6_Witness ==
    /\ ClusteringDone
    /\ clustering.min_reports = 2
    /\ \E k1 \in AllCells, k2 \in AllCells :
          /\ Cardinality(CellMembers(k1)) = 2
          /\ Cardinality(HotspotsAt(k1)) = 1
          /\ Cardinality(CellMembers(k2)) = 1
          /\ HotspotsAt(k2) = {}

\* C7: the grid cell of a report is coordinate / resolution rounded half
\* away from zero, for latitude and longitude alike.
C7_RoundsHalfAwayFromZero ==
    ClusteringDone =>
        \A c \in DOMAIN clustering.clusters :
            \A m \in DOMAIN clustering.clusters[c].reports :
                LET report == reports[clustering.clusters[c].reports[m]]
                IN  clustering.clusters[c].key =
                        <<round_half_away(report.latitude, 10),
                          round_half_away(report.longitude, 10)>>

\* The cell finalised, and a hotspot emitted for it.
Finalized == finalizing.pc = "done" /\ finalizing.hotspots # <<>>

\* C8 (as stated): threat_level is "high" exactly when the emitted
\* average_severity (rounded to two decimals) is >= 3.5, and "medium"
\* otherwise.
C8_ThreatFromEmittedAverage ==
    Finalized =>
        LET h == finalizing.hotspots[1]
        IN  /\ h.threat_level \in {"high", "medium"}
            /\ h.threat_level = "high" <=> h.average_severity >= 350

\* C8 (amended): threat_level is "high" exactly when the unrounded quotient
\* total_severity / report_count is >= 3.5, and "medium" otherwise; no other
\* level is emitted.
C8_ThreatFromExactAverage ==
    Finalized =>
        LET h == finalizing.hotspots[1]
        IN  /\ h.threat_level \in {"high", "medium"}
            /\ h.threat_level = "high"
                  <=> 10 * finalizing.total_severity
                          >= 35 * finalizing.report_count

\* 101 reports of total severity 353: the average 3.495... is emitted as
\* 3.5 and the cell is "medium".
C8_Witness ==
    /\ Finalized
    /\ finalizing.report_count = 101
    /\ finalizing.total_severity = 353
    /\ finalizing.hotspots[1].average_severity = 350
    /\ finalizing.hotspots[1].threat_level = "medium"

\* The position at which the accumulation pass created the cell of hotspot h.
CreatedAt(h) ==
    CHOOSE c \in DOMAIN clustering.clusters :
        clustering.clusters[c].key = <<h.latitude.tenths, h.longitude.tenths>>

C9_Product(h) == h.report_count * h.average_severity

\* C9: the returned list is in descending order of report_count *
\* average_severity, and hotspots of equal product are in the order in which
\* their cells were created.
C9_SortedStable ==
    ClusteringDone =>
        \A i \in DOMAIN response.hotspots, j \in DOMAIN response.hotspots :
            i < j =>
                LET x == response.hotspots[i]
                    y == response.hotspots[j]
                IN  /\ C9_Product(x) >= C9_Product(y)
                    /\ C9_Product(x) = C9_Product(y)
                           => CreatedAt(x) < CreatedAt(y)

\* Three hotspots: the cell created last comes first, the two others tie
\* and keep their order of creation.
C9_Witness ==
    /\ ClusteringDone
    /\ Len(response.hotspots) = 3
    /\ CreatedAt(response.hotspots[1]) = 3
    /\ CreatedAt(response.hotspots[2]) = 1
    /\ CreatedAt(response.hotspots[3]) = 2
    /\ C9_Product(response.hotspots[1]) > C9_Product(response.hotspots[2])
    /\ C9_Product(response.hotspots[2]) = C9_Product(response.hotspots[3])

\* A clustering run that follows a clustering run with the same arguments,
\* the store unchanged between the two.
C10_SecondRun ==
    /\ clustering.pc = "done"
    /\ clustering'.pc = "done"
    /\ clustering'.time_range = clustering.time_range
    /\ clustering'.min_reports = clustering.min_reports
    /\ reports' = reports

C10_SameOutput ==
    /\ response'.hotspots = response.hotspots
    /\ response'.total_reports = response.total_reports
    /\ response'.time_range_hours = response.time_range_hours

\* C10 (as stated): two clustering runs with no submission or other store
\* change between them yield identical output.
C10_RepeatedRunIdentical == [][C10_SecondRun => C10_SameOutput]_vars

\* C10 (amended): two clustering runs with no submission or other store
\* change between them, and with the same reports inside the time window at
\* both runs, yield identical output.
C10_RepeatedRunIdenticalSameWindow ==
    [][(C10_SecondRun
          /\ clustering'.recent_reports = clustering.recent_reports)
        => C10_SameOutput]_vars

\* A run that repeated the run before it and returned hotspots.
C10_Witness ==
    /\ ClusteringDone
    /\ clustering.repeats_previous
    /\ Len(response.hotspots) = 2

----------------------------------------------------------------------------
(* GateSpec: validate_report_location applied to one coordinate, drawn in   *)
(* the initial state from values on, next to and far from the four bounds.  *)

GateLatitudes ==
    {-9000, 0, 799, 800, 801, 1308, 2349, 2350, 2351, 9000}

GateLongitudes ==
    {-18000, 0, 6799, 6800, 6801, 8027, 9749, 9750, 9751, 18000}

GateInit ==
    /\ reports = <<>>
    /\ now = 0
    /\ response = IdleResponse
    /\ media_storage = <<>>
    /\ pending = <<>>
    /\ clustering = IdleClustering
    /\ scoring = IdleScoring
    /\ finalizing = IdleFinalizing
    /\ \E lat \in GateLatitudes, lon \in GateLongitudes :
          call = [fn |-> "validate_report_location", pc |-> "args",
                  lat |-> lat, lon |-> lon, result |-> FALSE]

GateCheck ==
    /\ call.fn = "validate_report_location"
    /\ call.pc = "args"
    /\ call' = [call EXCEPT
           !.pc = "done",
           !.result = validate_report_location(call.lat, call.lon)]
    /\ UNCHANGED pending
    /\ UNCHANGED <<reports, now, response, media_storage, clustering,
                   scoring, finalizing>>

GateNext == GateCheck

GateSpec == GateInit /\ [][GateNext]_vars

GateDone == call.fn = "validate_report_location" /\ call.pc = "done"

\* C14: the bounds are inclusive: a coordinate exactly on a bound (the other
\* axis in range) is accepted, one unit beyond any bound is rejected, and
\* the result is true exactly when 8.0 <= lat <= 23.5 and
\* 68.0 <= lon <= 97.5.
C14_InclusiveBounds ==
    GateDone =>
        /\ (call.lat \in {800, 2350} /\ call.lon \in {6800, 8027, 9750})
               => call.result
        /\ (call.lon \in {6800, 9750} /\ call.lat \in {800, 1308, 2350})
               => call.result
        /\ (call.lat \in {799, 2351} \/ call.lon \in {6799, 9751})
               => ~call.result
        /\ call.result <=> (/\ 800 <= call.lat /\ call.lat <= 2350
                            /\ 6800 <= call.lon /\ call.lon <= 9750)

\* The north-east corner of the box is accepted.
C14_Witness ==
    /\ GateDone
    /\ call.lat = 2350
    /\ call.lon = 9750
    /\ call.result

----------------------------------------------------------------------------
(* GeoSpec: the store is built by submissions and the clock advances as in  *)
(* Spec; find_nearby_reports is called directly on the store with a centre  *)
(* and a radius.                                                            *)

LookupCentres == {<<1308, 8027>>, <<1325, 8025>>}

\* The default radius of 5 km, and the distance between (13.08, 80.27) and
\* (13.09, 80.27), both in metres.
DefaultRadius == 5000

LookupRadii == {DefaultRadius, geodesic(1308, 8027, 1309, 8027)}

FindNearby ==
    /\ \E centre \in LookupCentres, radius_m \in LookupRadii :
          call' = [fn |-> "find_nearby_reports", pc |-> "done",
                   lat |-> centre[1], lon |-> centre[2],
                   radius_m |-> radius_m, clock |-> now,
                   result |-> find_nearby_reports(reports, now, centre[1],
                                                  centre[2], radius_m)]
    /\ UNCHANGED pending
    /\ UNCHANGED <<reports, now, response, media_storage, clustering,
                   scoring, finalizing>>

GeoNext == SubmitReport \/ Tick \/ FindNearby

GeoSpec == Init /\ [][GeoNext]_vars

LookupDone == call.fn = "find_nearby_reports" /\ call.pc = "done"

\* The ids listed by the finished lookup.
Listed == {call.result[j].id : j \in DOMAIN call.result}

\* Age of stored report i, in hours, when the lookup ran.
AgeAtLookup(i) == call.clock - reports[i].timestamp

DistanceFromCentre(i) ==
    geodesic(call.lat, call.lon, reports[i].latitude, reports[i].longitude)

\* C11: the lookup returns exactly the in-window reports whose distance from
\* the centre is at most the radius, the radius included, each once; a
\* report at the centre is returned with distance_km 0.
C11_ExactlyWithinRadius ==
    LookupDone =>
        /\ Listed = {reports[i].id : i \in
                       {i \in DOMAIN reports :
                           /\ AgeAtLookup(i) <= 24
                           /\ DistanceFromCentre(i) <= call.radius_m}}
        /\ Cardinality(Listed) = Len(call.result)
        /\ \A j \in DOMAIN call.result : \A i \in DOMAIN reports :
              (/\ reports[i].id = call.result[j].id
               /\ reports[i].latitude = call.lat
               /\ reports[i].longitude = call.lon)
                  => call.result[j].distance_km = 0

\* A lookup that lists a report at the centre with distance 0 and a report
\* exactly at the radius, and leaves out an in-window report farther away.
C11_Witness ==
    /\ LookupDone
    /\ call.radius_m < DefaultRadius
    /\ \E j \in DOMAIN call.result : call.result[j].distance_km = 0
    /\ \E i \in DOMAIN reports :
          /\ DistanceFromCentre(i) = call.radius_m
          /\ reports[i].id \in Listed
    /\ \E i \in DOMAIN reports :
          /\ AgeAtLookup(i) <= 24
          /\ DistanceFromCentre(i) > call.radius_m
          /\ reports[i].id \notin Listed

\* C12: no report older than 24 hours at the time of the lookup is listed,
\* wherever it lies; a report at the centre that is at most 24 hours old is
\* listed.
C12_AgeExclusion ==
    LookupDone =>
        /\ \A i \in DOMAIN reports :
              AgeAtLookup(i) > 24 => reports[i].id \notin Listed
        /\ \A i \in DOMAIN reports :
              (/\ AgeAtLookup(i) <= 24
               /\ reports[i].latitude = call.lat
               /\ reports[i].longitude = call.lon)
                  => reports[i].id \in Listed

\* Two reports at the centre: the one aged 48 hours is left out, the one
\* aged exactly 24 hours is listed.
C12_Witness ==
    /\ LookupDone
    /\ \E i, k \in DOMAIN reports :
          /\ reports[i].latitude = call.lat
          /\ reports[i].longitude = call.lon
          /\ reports[k].latitude = call.lat
          /\ reports[k].longitude = call.lon
          /\ AgeAtLookup(i) > 24
          /\ reports[i].id \notin Listed
          /\ AgeAtLookup(k) = 24
          /\ reports[k].id \in Listed

\* C13: the list returned by the lookup is in ascending order of
\* distance_km.
C13_AscendingDistance ==
    LookupDone =>
        \A j, k \in DOMAIN call.result :
            j < k => call.result[j].distance_km <= call.result[k].distance_km

----------------------------------------------------------------------------
(* Submission outcomes, checked under Spec.                                 *)

\* The last request was a submission.
Submitted == response.op = "submit_hazard_report"

\* The coordinate of a form lies outside the box 8.0 .. 23.5, 68.0 .. 97.5.
OutOfArea(request) ==
    \/ request.latitude < 800
    \/ request.latitude > 2350
    \/ request.longitude < 6800
    \/ request.longitude > 9750

\* C15: a step that answers a submission whose coordinate is outside the
\* service area answers with an error and leaves the store and the media
\* storage as they were, whatever media the submission carried.
C15_OutOfAreaStep ==
    (/\ response'.op = "submit_hazard_report"
     /\ OutOfArea(response'.request))
        => /\ response'.status = 400
           /\ reports' = reports
           /\ media_storage' = media_storage

C15_OutOfAreaRejected == [][C15_OutOfAreaStep]_vars

\* An out-of-area submission carrying a media file was refused while the
\* store held a report; nothing was written.
C15_Witness ==
    /\ Submitted
    /\ OutOfArea(response.request)
    /\ response.request.media_files # <<>>
    /\ response.status = 400
    /\ reports # <<>>
    /\ \A i \in DOMAIN reports : ~OutOfArea(reports[i])
    /\ media_storage = <<>>
    /\ pending = <<>>

----------------------------------------------------------------------------
(* Invalid input to the scorer, checked under ScoreSpec.                    *)

\* C16 (as stated): a call of the scorer with a severity outside 1..5 ends
\* in InvalidInputError; no score is returned for it.
C16_InvalidSeveritySignalled ==
    (FirstScored /\ scoring.severity_a \notin 1 .. 5)
        => scoring.outcome_a = "InvalidInputError"

----------------------------------------------------------------------------
(* Unknown hazard types: the scorer under ScoreSpec, the submission under   *)
(* Spec.                                                                    *)

\* The last request was an in-area submission, otherwise valid, of a hazard
\* type that hazard_weights does not hold.
UnknownTypeSubmitted ==
    /\ Submitted
    /\ ~OutOfArea(response.request)
    /\ response.request.severity \in 1 .. 5
    /\ response.request.hazard_type \notin DOMAIN hazard_weights

\* C17 (as stated): a report of a hazard type that the table does not hold
\* is not rejected: its submission produces no error outcome.
C17_UnknownTypeNotRejected ==
    UnknownTypeSubmitted => response.status = 200

\* C17 (amended): calculate_priority_score itself never rejects a hazard
\* type that the table does not hold, it returns the score for base weight
\* 1.0, that is 1.0 * severity / 5 * (1 + min(0.2 * n, 2.0)); a submission
\* of such a type is refused by the validator of ReportSubmission before the
\* scorer is called, so it ends in an error and no stored report has a type
\* outside the table.
C17_UnknownTypeScoredButRefusedAtSubmission ==
    /\ (FirstScored /\ scoring.hazard_type \notin DOMAIN hazard_weights)
           => /\ scoring.outcome_a = "returned"
              /\ scoring.score_a
                     = 4 * scoring.severity_a * (5 + Min(scoring.n_a, 10))
    /\ UnknownTypeSubmitted => response.status = 500
    /\ \A i \in DOMAIN reports :
          reports[i].hazard_type \in DOMAIN hazard_weights

\* A submission of type landslide was refused while the store held a report.
C17_Witness ==
    /\ UnknownTypeSubmitted
    /\ response.request.hazard_type = "landslide"
    /\ response.status = 500
    /\ reports # <<>>

\* The scorer returned 1.0 * 4 / 5 * (1 + 0.4) = 1.12 for type landslide,
\* severity 4, two corroborators.
C17_ScorerWitness ==
    /\ FirstScored
    /\ scoring.hazard_type = "landslide"
    /\ scoring.severity_a = 4
    /\ scoring.n_a = 2
    /\ scoring.score_a = 112

----------------------------------------------------------------------------
(* The worked example: three cyclone reports of severity 4 at               *)
(* (13.08, 80.27), checked under Spec.                                      *)

IsExampleReport(report) ==
    /\ report.hazard_type = "cyclone"
    /\ report.severity = 4
    /\ report.latitude = 1308
    /\ report.longitude = 8027

\* The store holds exactly the three reports of the example, submitted one
\* after the other within one hour.
ExampleIngested ==
    /\ Len(reports) = 3
    /\ \A i \in DOMAIN reports : IsExampleReport(reports[i])
    /\ \A i, k \in DOMAIN reports :
          reports[i].timestamp - reports[k].timestamp <= 1

\* C18 (as stated): each of the three stored reports has two corroborators
\* and priority_score 5.04.
C18_EachHasTwoCorroborators ==
    ExampleIngested =>
        \A i \in DOMAIN reports :
            /\ Len(reports[i].nearby_reports) = 2
            /\ reports[i].priority_score = 504

\* C18 (amended): the corroborators of a report are those stored before it:
\* the first, second and third report have 0, 1 and 2 corroborators and the
\* scores 3.60, 4.32 and 5.04.
C18_CorroboratorsAreEarlierReports ==
    ExampleIngested =>
        /\ \A i \in DOMAIN reports :
              /\ Len(reports[i].nearby_reports) = i - 1
              /\ {reports[i].nearby_reports[j].id :
                      j \in DOMAIN reports[i].nearby_reports}
                     = {reports[k].id : k \in 1 .. i - 1}
        /\ reports[1].priority_score = 360
        /\ reports[2].priority_score = 432
        /\ reports[3].priority_score = 504

\* The third report of the example was just stored, with score 5.04.
C18_Witness ==
    /\ ExampleIngested
    /\ Submitted
    /\ response.status = 200
    /\ response.report_id = reports[3].id
    /\ response.nearby_reports_count = 2
    /\ response.priority_score = 504

\* A run with the defaults (24 hours, min_reports 3) whose in-window reports
\* are exactly three reports of the example.
ExampleClustered ==
    /\ ClusteringDone
    /\ clustering.time_range = 24
    /\ clustering.min_reports = 3
    /\ Cardinality(InWindow) = 3
    /\ \A i \in InWindow : IsExampleReport(reports[i])

\* C19 (as stated): the run yields exactly one hotspot, with centre
\* (13.1, 80.3), report_count 3, average_severity 4.0 and threat level high.
C19_OneHotspotAtDecimalCentre ==
    ExampleClustered =>
        /\ Len(response.hotspots) = 1
        /\ response.hotspots[1].latitude = [tenths |-> 131, ulps |-> 0]
        /\ response.hotspots[1].longitude = [tenths |-> 803, ulps |-> 0]
        /\ response.hotspots[1].report_count = 3
        /\ response.hotspots[1].average_severity = 400
        /\ response.hotspots[1].threat_level = "high"

\* C19 (amended): the run yields exactly one hotspot, with report_count 3,
\* average_severity 4.0 and threat level high; its centre is the pair of
\* float products 131 * 0.1 and 803 * 0.1, each one unit in the last place
\* above 13.1 and 80.3 (13.100000000000001, 80.30000000000001).
C19_OneHotspotAtFloatCentre ==
    ExampleClustered =>
        /\ Len(response.hotspots) = 1
        /\ response.hotspots[1].latitude = [tenths |-> 131, ulps |-> 1]
        /\ response.hotspots[1].longitude = [tenths |-> 803, ulps |-> 1]
        /\ response.hotspots[1].report_count = 3
        /\ response.hotspots[1].average_severity = 400
        /\ response.hotspots[1].threat_level = "high"
        /\ response.hotspots[1].hazard_types = {"cyclone"}
        /\ response.total_reports = 3

\* The run of the example has returned its one hotspot.
C19_Witness ==
    /\ ExampleClustered
    /\ ExampleIngested
    /\ Len(response.hotspots) = 1
    /\ response.hotspots[1].report_count = 3

----------------------------------------------------------------------------
(* LifeSpec: submissions, verifications, queries of one report, dashboard    *)
(* requests, clustering runs and the passing of time, in any order.  The submissions *)
(* are two that are stored within each other's radius and one that is       *)
(* refused.                                                                 *)

LifeSubmissions ==
    {<<"u1", 1308, 8027, "cyclone", 4, <<>> >>,
     <<"u2", 1309, 8027, "other", 3, <<>> >>,
     <<"u1", 700, 8027, "cyclone", 4, <<>> >>}

\* Verification requests: the ids of the first two reports and an id that
\* no report has; the two statuses and one the handler refuses.
VerifyIds == {0, 1, 2}

VerifyStatuses == {"verified", "rejected", "pending"}

LifeSubmit ==
    /\ Len(reports) < MaxReports
    /\ \E form \in LifeSubmissions :
          submit_hazard_report(form[1], form[2], form[3], form[4], form[5],
                               form[6])
    /\ clustering' = IdleClustering
    /\ call' = IdleCall
    /\ UNCHANGED pending
    /\ UNCHANGED <<now, scoring, finalizing>>

VerifyReport ==
    /\ \E report_id \in VerifyIds, status \in VerifyStatuses :
          verify_report(report_id, status, "officer")
    /\ clustering' = IdleClustering
    /\ call' = IdleCall
    /\ UNCHANGED pending
    /\ UNCHANGED <<now, media_storage, scoring, finalizing>>

GetReportDetails ==
    /\ \E report_id \in VerifyIds : get_report_details(report_id)
    /\ clustering' = IdleClustering
    /\ call' = IdleCall
    /\ UNCHANGED pending
    /\ UNCHANGED <<now, media_storage, scoring, finalizing>>

DashboardStats ==
    /\ get_dashboard_stats
    /\ clustering' = IdleClustering
    /\ call' = IdleCall
    /\ UNCHANGED pending
    /\ UNCHANGED <<now, scoring, finalizing>>

LifeNext ==
    \/ LifeSubmit
    \/ VerifyReport
    \/ GetReportDetails
    \/ DashboardStats
    \/ HotspotRun
    \/ Tick

LifeSpec == Init /\ [][LifeNext]_vars

----------------------------------------------------------------------------
(* The life of a stored report, checked under LifeSpec.                     *)

\* Row i of the store is there after the step, the same but for its
\* verification_status.
KeepsCommitted(i) ==
    /\ i \in DOMAIN reports'
    /\ reports'[i] = [reports[i] EXCEPT
           !.verification_status = reports'[i].verification_status]

\* C20: no step (submission, verification, query, clustering run, passing
\* of time) removes a stored report or changes its id, location, hazard_type,
\* severity, timestamp, priority_score or nearby_reports; only its
\* verification_status may change.
C20_CommittedFieldsFrozen ==
    [][\A i \in DOMAIN reports : KeepsCommitted(i)]_vars

\* The first report, stored with no corroborators, has since been verified
\* and two reports have been stored within its radius.
C20_Witness ==
    /\ Len(reports) = 3
    /\ reports[1].verification_status = "verified"
    /\ reports[1].nearby_reports = <<>>
    /\ \E j \in DOMAIN reports[3].nearby_reports :
          reports[3].nearby_reports[j].id = reports[1].id
    /\ \E j \in DOMAIN reports[2].nearby_reports :
          reports[2].nearby_reports[j].id = reports[1].id
    /\ ClusteringDone

----------------------------------------------------------------------------
(* Clustering as a read, checked under LifeSpec.                            *)

\* C21: a step that answers a clustering run, asked for directly or through
\* the dashboard, leaves every stored report and the media storage as they
\* were: the store is the one the other handlers produced.
C21_RunStep ==
    response'.op \in {"get_hazard_hotspots", "get_dashboard_stats"}
        => /\ reports' = reports
           /\ media_storage' = media_storage

C21_RunIsPureRead == [][C21_RunStep]_vars

\* A dashboard request has run the clustering over a store of three reports,
\* one of them older than its window and one of them verified.
C21_Witness ==
    /\ response.op = "get_dashboard_stats"
    /\ Len(reports) = 3
    /\ response.total_reports = 2
    /\ response.verified_reports = 1
    /\ \E i \in DOMAIN reports : reports[i].timestamp < now - 24

----------------------------------------------------------------------------
(* ConcSpec: submissions that overlap.  A submission begins (gate,          *)
(* validation, lookup, score) and finishes (media, commit) in two steps,    *)
(* and any other step may come between: other submissions beginning or      *)
(* finishing, clustering runs, the passing of time.  The submissions are    *)
(* two within each other's radius and cell, one of them with a media file,  *)
(* and one whose second media file is over the limit.                       *)

ConcSubmissions ==
    {<<"u1", 1308, 8027, "cyclone", 4, <<>> >>,
     <<"u2", 1309, 8027, "other", 3, <<1024>> >>,
     <<"u1", 1308, 8027, "cyclone", 4, <<1024, MediaLimit + 1>> >>}

\* The most media files that the model lets be written.
MaxMedia == 2

\* The media files that the submissions in flight carry.
RECURSIVE PendingFiles(_)
PendingFiles(inflight) ==
    IF inflight = <<>> THEN 0
    ELSE Len(Head(inflight).request.media_files) + PendingFiles(Tail(inflight))

ConcBegin ==
    /\ Len(reports) + Len(pending) < MaxReports
    /\ \E form \in ConcSubmissions :
          /\ Len(media_storage) + PendingFiles(pending) + Len(form[6])
                 <= MaxMedia
          /\ begin_submission(form[1], form[2], form[3], form[4], form[5],
                              form[6])
    /\ clustering' = IF response' = response THEN clustering
                     ELSE IdleClustering
    /\ UNCHANGED <<now, scoring, finalizing, call>>

ConcFinish ==
    /\ \E k \in DOMAIN pending : finish_submission(k)
    /\ clustering' = IdleClustering
    /\ UNCHANGED <<now, scoring, finalizing, call>>

\* A clustering run with the defaults of the handler.
ConcRun ==
    /\ get_hazard_hotspots(24, 3)
    /\ UNCHANGED <<now, scoring, finalizing, call, pending>>

ConcNext == ConcBegin \/ ConcFinish \/ ConcRun \/ Tick

ConcSpec == Init /\ [][ConcNext]_vars

\* The ids that stored report i lists as its corroborators.
ListedBy(i) ==
    {reports[i].nearby_reports[j].id : j \in DOMAIN reports[i].nearby_reports}

\* C22: whatever the order in which overlapping submissions looked up and
\* committed, a clustering run counts in each cell every committed
\* in-window report that the grid maps to it: the cells of the run are the
\* cells of those reports, each once, and a cell's count is the number of
\* its reports, whether or not they list each other.
C22_RunCountsEveryCommitted ==
    ClusteringDone =>
        /\ \A key \in {grid_key(reports[i]) : i \in InWindow} :
              Cardinality({c \in DOMAIN clustering.clusters :
                              clustering.clusters[c].key = key}) = 1
        /\ \A c \in DOMAIN clustering.clusters :
              Len(clustering.clusters[c].reports)
                  = Cardinality(CellMembers(clustering.clusters[c].key))
        /\ \A j \in DOMAIN response.hotspots :
              response.hotspots[j].report_count
                  = Cardinality(CellMembers(
                        <<response.hotspots[j].latitude.tenths,
                          response.hotspots[j].longitude.tenths>>))

\* Three submissions looked up before any of them committed, so none lists
\* another; the run after the last commit counts all three in their cell.
C22_Witness ==
    /\ ClusteringDone
    /\ pending = <<>>
    /\ Len(reports) = 3
    /\ \A i \in DOMAIN reports : reports[i].nearby_reports = <<>>
    /\ Len(response.hotspots) = 1
    /\ response.hotspots[1].report_count = 3

\* The submission that a step has taken in flight: the ids it was given are
\* those of the rows committed by then, inside the 24 hours before the
\* lookup and within 5 km, and its score is the score for that many.
C23_LookupStep ==
    Len(pending') = Len(pending) + 1 =>
        LET entry == pending'[Len(pending')]
            request == entry.request
        IN  /\ pending' = Append(pending, entry)
            /\ {entry.nearby_reports[j].id : j \in DOMAIN entry.nearby_reports}
                   = {reports[i].id : i \in
                        {i \in DOMAIN reports :
                            /\ reports[i].timestamp >= now - 24
                            /\ geodesic(request.latitude, request.longitude,
                                        reports[i].latitude,
                                        reports[i].longitude) <= 5000}}
            /\ Cardinality({entry.nearby_reports[j].id :
                                j \in DOMAIN entry.nearby_reports})
                   = Len(entry.nearby_reports)
            /\ entry.priority_score
                   = RoundHalfEven(
                         base_score(request.hazard_type) * request.severity
                             * (5 + Min(Len(entry.nearby_reports), 10)) * 2, 5)

\* The row that a step has committed carries the list and the score of its
\* lookup; the rows before it keep theirs, and every id it lists is the id
\* of a row committed before it.
C23_CommitStep ==
    Len(reports') = Len(reports) + 1 =>
        LET row == reports'[Len(reports')]
        IN  /\ \E k \in DOMAIN pending :
                  /\ pending' = RemoveAt(pending, k)
                  /\ row.nearby_reports = pending[k].nearby_reports
                  /\ row.priority_score = pending[k].priority_score
            /\ \A i \in DOMAIN reports :
                  reports'[i].nearby_reports = reports[i].nearby_reports
            /\ \A j \in DOMAIN row.nearby_reports :
                  \E i \in DOMAIN reports :
                      reports[i].id = row.nearby_reports[j].id

\* C23: the corroborators stored with a report are exactly the in-window,
\* in-radius reports committed when its submission looked them up; what
\* commits between that lookup and the report's own commit is in neither
\* the stored list nor the stored score.
C23_SnapshotAtLookup ==
    [][/\ C23_LookupStep
       /\ C23_CommitStep
       /\ Len(pending') <= Len(pending) =>
              \/ pending' = pending
              \/ \E k \in DOMAIN pending : pending' = RemoveAt(pending, k)]_vars

\* Report 2 looked up before report 1 committed and committed after it: it
\* lies at the place of report 1, inside the window, and does not list it;
\* its score is the score for no corroborators.
C23_Witness ==
    /\ Len(reports) >= 2
    /\ IsExampleReport(reports[1])
    /\ IsExampleReport(reports[2])
    /\ reports[2].timestamp - reports[1].timestamp <= 24
    /\ reports[2].nearby_reports = <<>>
    /\ reports[2].priority_score = 360

----------------------------------------------------------------------------
(* Corroboration by the same reporter, checked under LifeSpec.              *)

\* The reports stored before report i, inside the 24 hours before it and
\* within 5 km of it, whoever submitted them.
EarlierNearby(i) ==
    {k \in 1 .. i - 1 :
        /\ reports[k].timestamp >= reports[i].timestamp - 24
        /\ geodesic(reports[i].latitude, reports[i].longitude,
                    reports[k].latitude, reports[k].longitude) <= 5000}

\* C24: the corroborators of a stored report are all the earlier in-window,
\* in-radius reports, those of its own user_id included, and its score has
\* the bonus min(0.2 * k, 2.0) for their number k, whatever the users are.
C24_SameUserCounts ==
    \A i \in DOMAIN reports :
        /\ ListedBy(i) = {reports[k].id : k \in EarlierNearby(i)}
        /\ Len(reports[i].nearby_reports) = Cardinality(EarlierNearby(i))
        /\ reports[i].priority_score
               = RoundHalfEven(
                     base_score(reports[i].hazard_type) * reports[i].severity
                         * (5 + Min(Cardinality(EarlierNearby(i)), 10)) * 2, 5)

\* The third report has two corroborators, one of its own user and one of
\* another user, and the score 4.5 * 0.8 * 1.4 = 5.04; the second report of
\* the same user in another store would have scored the same.
C24_Witness ==
    /\ Len(reports) = 3
    /\ IsExampleReport(reports[3])
    /\ reports[1].user_id = reports[3].user_id
    /\ reports[2].user_id # reports[3].user_id
    /\ ListedBy(3) = {reports[1].id, reports[2].id}
    /\ reports[3].priority_score = 504

----------------------------------------------------------------------------
(* The corroboration relation, checked under ConcSpec.                      *)

\* C25: in every reachable state no stored report lists itself, every id a
\* report lists is the id of a stored report, and no two reports list each
\* other.
C25_RelationWellFormed ==
    /\ \A i \in DOMAIN reports : reports[i].id \notin ListedBy(i)
    /\ \A i \in DOMAIN reports :
          ListedBy(i) \subseteq {reports[k].id : k \in DOMAIN reports}
    /\ \A i, k \in DOMAIN reports :
          ~(reports[k].id \in ListedBy(i) /\ reports[i].id \in ListedBy(k))

\* Three reports at nearly one place: the second lists the first, and the
\* third, which looked up before either committed, lists neither.
C25_Witness ==
    /\ Len(reports) = 3
    /\ ListedBy(2) = {reports[1].id}
    /\ ListedBy(3) = {}
    /\ reports[3].timestamp - reports[1].timestamp <= 24

----------------------------------------------------------------------------
(* The cells of one run as a partition, checked under Spec.                 *)

\* The number of members over the cells of the last run.
RECURSIVE MemberCount(_)
MemberCount(clusters) ==
    IF clusters = <<>> THEN 0
    ELSE Len(Head(clusters).reports) + MemberCount(Tail(clusters))

\* The sum of report_count over a list of hotspots.
RECURSIVE ReportCountSum(_)
ReportCountSum(hotspots) ==
    IF hotspots = <<>> THEN 0
    ELSE Head(hotspots).report_count + ReportCountSum(Tail(hotspots))

\* The places <<cell, position>> at which the last run holds report i.
PlacesOf(i) ==
    {place \in {<<c, m>> : c \in DOMAIN clustering.clusters, m \in 1 .. MaxReports + 1} :
        /\ place[2] \in DOMAIN clustering.clusters[place[1]].reports
        /\ clustering.clusters[place[1]].reports[place[2]] = reports[i].id}

\* C26: in one run every in-window report is in exactly one cell; two
\* reports are in the same cell exactly when their quantized latitudes and
\* their quantized longitudes are equal; the members of all cells number
\* total_reports; the report_count of the hotspots sum to at most
\* total_reports; and total_reports is the number of stored reports with
\* timestamp >= now - time_range.
C26_CellsPartitionWindow ==
    ClusteringDone =>
        /\ \A i \in InWindow : Cardinality(PlacesOf(i)) = 1
        /\ \A i \in DOMAIN reports \ InWindow : PlacesOf(i) = {}
        /\ \A i, k \in InWindow :
              (\E p \in PlacesOf(i), q \in PlacesOf(k) : p[1] = q[1])
                  <=> (/\ grid_round(reports[i].latitude)
                              = grid_round(reports[k].latitude)
                       /\ grid_round(reports[i].longitude)
                              = grid_round(reports[k].longitude))
        /\ MemberCount(clustering.clusters) = response.total_reports
        /\ ReportCountSum(response.hotspots) <= response.total_reports
        /\ response.total_reports = Cardinality(InWindow)
        /\ clustering.cutoff_time = now - clustering.time_range
               => response.total_reports
                      = Cardinality({i \in DOMAIN reports :
                            reports[i].timestamp
                                >= now - clustering.time_range})

\* A run over three reports in two cells, one of the reports exactly at the
\* start of the window; only the cell of two passes the threshold.
C26_Witness ==
    /\ ClusteringDone
    /\ response.total_reports = 3
    /\ Len(clustering.clusters) = 2
    /\ ReportCountSum(response.hotspots) = 2
    /\ \E i \in InWindow : reports[i].timestamp = clustering.cutoff_time

----------------------------------------------------------------------------
(* verify_report and the verification status, checked under LifeSpec.       *)

\* The rows of the store that have this id.
RowsWithId(report_id) == {i \in DOMAIN reports : reports[i].id = report_id}

\* C27: a step that answers verify_report answers 400 for a status other
\* than verified or rejected, 404 for an id that no stored report has, and
\* in both cases leaves every stored report as it was; otherwise it sets
\* the verification_status of the report with that id to the status asked
\* for and changes nothing else.
C27_VerifyStep ==
    response'.op = "verify_report" =>
        LET request == response'.request
        IN  IF request.status \notin {"verified", "rejected"}
                THEN /\ response'.status = 400
                     /\ reports' = reports
            ELSE IF RowsWithId(request.report_id) = {}
                THEN /\ response'.status = 404
                     /\ reports' = reports
            ELSE /\ response'.status = 200
                 /\ DOMAIN reports' = DOMAIN reports
                 /\ \A i \in DOMAIN reports :
                       reports'[i] =
                           IF i \in RowsWithId(request.report_id)
                               THEN [reports[i] EXCEPT
                                        !.verification_status = request.status]
                               ELSE reports[i]

C27_VerifyOutcomes == [][C27_VerifyStep]_vars

\* The second of two reports has just been rejected by a verifier; the first
\* is still pending.
C27_Witness ==
    /\ response.op = "verify_report"
    /\ response.status = 200
    /\ response.request = [report_id |-> 2, status |-> "rejected"]
    /\ Len(reports) >= 2
    /\ reports[2].verification_status = "rejected"
    /\ reports[1].verification_status = "pending"

\* C28: after every step each stored report has one of the statuses pending,
\* verified, rejected; a report that the step has stored is pending; a step
\* other than a verification keeps the status of every report; and a report
\* that has left pending does not return to it.
C28_StatusStep ==
    /\ \A i \in DOMAIN reports' :
          reports'[i].verification_status
              \in {"pending", "verified", "rejected"}
    /\ \A i \in DOMAIN reports' \ DOMAIN reports :
          reports'[i].verification_status = "pending"
    /\ \A i \in DOMAIN reports :
          /\ i \in DOMAIN reports'
          /\ response'.op # "verify_report"
                 => reports'[i].verification_status
                        = reports[i].verification_status
          /\ reports[i].verification_status # "pending"
                 => reports'[i].verification_status # "pending"

C28_StatusLifecycle == [][C28_StatusStep]_vars

\* A report that was verified has since been rejected, and a report stored
\* after that verification is pending.
C28_Witness ==
    /\ response.op = "verify_report"
    /\ response.request = [report_id |-> 1, status |-> "rejected"]
    /\ response.status = 200
    /\ Len(reports) = 3
    /\ reports[1].verification_status = "rejected"
    /\ reports[2].verification_status = "verified"
    /\ reports[3].verification_status = "pending"

----------------------------------------------------------------------------
(* A submission refused for its media, checked under ConcSpec.              *)

\* C29 (as stated): a step that refuses a submission because one of its
\* media files is over 10 MB leaves nothing of it behind: no report is
\* stored and the media storage holds no file more than before.
C29_RefusalStep ==
    (/\ response'.op = "submit_hazard_report"
     /\ response'.status = 400
     /\ response'.detail = "File size exceeds 10MB limit")
        => /\ reports' = reports
           /\ media_storage' = media_storage

C29_OversizeLeavesNothing == [][C29_RefusalStep]_vars

----------------------------------------------------------------------------
(* RouteSpec: the router.  The store is built by submissions as in          *)
(* LifeSpec; a GET request is given to the endpoint of the first route, in  *)
(* the order of registration, whose path matches.                           *)

\* router.routes, in the order in which the decorators run: of two
\* decorators on one function the lower one registers first.  A path is its
\* list of segments; "{report_id}" stands for one segment of any content.
Routes ==
    <<[method |-> "POST", path |-> <<"api", "report", "submit">>,
       endpoint |-> "submit_hazard_report"],
      [method |-> "GET", path |-> <<"api", "weather">>,
       endpoint |-> "get_weather_data"],
      [method |-> "GET", path |-> <<"api", "reports", "hotspots">>,
       endpoint |-> "get_weather_data"],
      [method |-> "GET", path |-> <<"api", "dashboard", "stats">>,
       endpoint |-> "get_dashboard_stats"],
      [method |-> "GET", path |-> <<"api", "reports", "active">>,
       endpoint |-> "get_active_reports"],
      [method |-> "GET", path |-> <<"api", "reports", "filter">>,
       endpoint |-> "filter_reports"],
      [method |-> "GET", path |-> <<"api", "reports", "{report_id}">>,
       endpoint |-> "get_report_details"],
      [method |-> "GET", path |-> <<"api", "reports", "submit", "{report_id}">>,
       endpoint |-> "verify_report"]>>

\* The path of a request matches the path of a route.
PathMatches(pattern, path) ==
    /\ Len(pattern) = Len(path)
    /\ \A n \in DOMAIN pattern :
          pattern[n] = "{report_id}" \/ pattern[n] = path[n]

\* The endpoint of the first route that matches, "none" when no route does.
Dispatch(method, path) ==
    LET matching == {n \in DOMAIN Routes :
                        /\ Routes[n].method = method
                        /\ PathMatches(Routes[n].path, path)}
    IN  IF matching = {} THEN "none"
        ELSE Routes[CHOOSE n \in matching : \A m \in matching : n <= m].endpoint

\* The id that a path segment names: the model's ids are numbers.
IdOfSegment(segment) ==
    CASE segment = "1" -> 1
      [] segment = "2" -> 2
      [] OTHER -> 0

\* get_weather_data(lat, lon): both query parameters are required, the
\* answer is a fixed record.
get_weather_data(query) ==
    /\ response' =
           IF query = {"lat", "lon"}
               THEN [op |-> "get_weather_data", status |-> 200,
                     temperature |-> 28, wind_speed |-> 15,
                     timestamp |-> now]
               ELSE [op |-> "get_weather_data", status |-> 422,
                     detail |-> "Field required"]
    /\ UNCHANGED reports

RequestPaths ==
    {<<"api", "reports", "hotspots">>,
     <<"api", "reports", "1">>,
     <<"api", "reports", "2">>,
     <<"api", "weather">>,
     <<"api", "dashboard", "stats">>,
     <<"api", "hotspots">>}

RequestQueries == {{}, {"lat", "lon"}}

RouteRequest ==
    /\ \E path \in RequestPaths, query \in RequestQueries :
          LET endpoint == Dispatch("GET", path)
          IN  /\ call' = [fn |-> "route", pc |-> "done", method |-> "GET",
                          path |-> path, query |-> query,
                          endpoint |-> endpoint]
              /\ CASE endpoint = "get_weather_data" ->
                          get_weather_data(query)
                   [] endpoint = "get_dashboard_stats" ->
                          get_dashboard_stats
                   [] endpoint = "get_report_details" ->
                          get_report_details(IdOfSegment(path[3]))
                   [] OTHER ->
                          /\ response' = [op |-> "none", status |-> 404,
                                          detail |-> "Not Found"]
                          /\ UNCHANGED reports
    /\ clustering' = IdleClustering
    /\ UNCHANGED <<now, media_storage, scoring, finalizing, pending>>

RouteNext == LifeSubmit \/ RouteRequest \/ Tick

RouteSpec == Init /\ [][RouteNext]_vars

\* C30 (as stated): a GET request to /api/reports/hotspots is given to
\* get_hazard_hotspots and to no other handler, and its answer is the
\* result of the clustering run.
C30_HotspotsRouteReachesClustering ==
    (/\ call.fn = "route"
     /\ call.method = "GET"
     /\ call.path = <<"api", "reports", "hotspots">>)
        => /\ call.endpoint = "get_hazard_hotspots"
           /\ response.op = "get_hazard_hotspots"

============================================================================
